---- MODULE Spec2Model ----
(***************************************************************************)
(* Watermark localisation and removal pipeline of sora-enhancer            *)
(* (src/watermark.py): the region detector and mask builder                *)
(* (detect_sora_watermark), the frame reconstructor                        *)
(* (remove_watermark_inpaint, remove_watermark_smart) and the sequence     *)
(* driver (process_video_watermark); the processing pipeline               *)
(* (process_complete, src/process.py) and the jobs of the server           *)
(* (start_enhance, run_processing, download, src/server.py).               *)
(*                                                                         *)
(* Images are row-major grids: a grid of width w and height h is a         *)
(* sequence of w*h cells, cell (x, y) at position y*w + x + 1, the order   *)
(* in which numpy lays out an array of shape (h, w).                       *)
(***************************************************************************)
EXTENDS Integers, Sequences, FiniteSets, TLC

\* ------------------------------------------------------------------ bounds

\* Longest frame source of a driver run.
MaxFrames == 3

\* Largest width and height of the frames, masks and previous frames handed
\* to the reconstructor when it is called on its own.
MaxDim == 3

\* ------------------------------------------------------- program constants

RoiYPercent == 85
RoiXPercent == 70
BrightThreshold == 200
ThresholdMaxval == 255
MinArea == 100
MaxArea == 10000
MinBoxW == 10
MaxBoxW == 300
MinBoxH == 5
MaxBoxH == 100
pad == 5
DetectedColor == 255
MarginPercent == 2
WmWPercent == 8
WmHPercent == 4
PriorColor == 128
KernelSize == 7
DilateIterations == 2
ProgressEvery == 30

\* ---------------------------------------------------------------- helpers

\* Python's None and a present value: an optional value is a sequence of
\* length 0 or 1.
None == <<>>

Some(x) == <<x>>

TheValue(opt) == opt[1]

Max(S) == CHOOSE v \in S : \A u \in S : u <= v

MinOf(a, b) == IF a <= b THEN a ELSE b

MaxOf(a, b) == IF a >= b THEN a ELSE b

\* int(n * 0.pp) for a frame dimension n >= 0: the product truncated.  The
\* double product n * 0.70 falls one short of this for n = 90, 170, 180, ...;
\* every frame of DriverSizes and DetectSizes is narrower than that.
IntPercent(n, percent) == (n * percent) \div 100

\* A grid with every cell computed once: f \o <<>> is the sequence f, held as
\* an explicit table of values.  The operators on grids below take their
\* image arguments through a one-element set (g \in {img}), which fixes the
\* value of the argument before the cells are computed.
Grid(f) == f \o <<>>

\* The position of cell (x, y) in a grid of width w, and back.
At(w, x, y) == y * w + x + 1

XOf(w, j) == (j - 1) % w

YOf(w, j) == (j - 1) \div w

\* numpy.zeros((h, w), uint8)
zeros(w, h) == Grid([j \in 1..(w * h) |-> 0])

\* cv2.rectangle(img, (x1, y1), (x2, y2), color, -1): the filled rectangle
\* with both corners inclusive, clipped to the image.
rectangle(img, w, h, x1, y1, x2, y2, color) ==
    CHOOSE out \in
        {Grid([j \in 1..(w * h) |->
            LET x == XOf(w, j)
                y == YOf(w, j)
            IN  IF /\ MinOf(x1, x2) <= x /\ x <= MaxOf(x1, x2)
                   /\ MinOf(y1, y2) <= y /\ y <= MaxOf(y1, y2)
                THEN color
                ELSE g[j]]) : g \in {img}} : TRUE

RECURSIVE BitOr(_, _, _)
\* a | b on `bits` bits
BitOr(a, b, bits) ==
    IF bits = 0 THEN 0
    ELSE (IF a % 2 = 1 \/ b % 2 = 1 THEN 1 ELSE 0)
         + 2 * BitOr(a \div 2, b \div 2, bits - 1)

RECURSIVE BitAnd(_, _, _)
BitAnd(a, b, bits) ==
    IF bits = 0 THEN 0
    ELSE (IF a % 2 = 1 /\ b % 2 = 1 THEN 1 ELSE 0)
         + 2 * BitAnd(a \div 2, b \div 2, bits - 1)

\* Variant of bitwise_or: the two grids are combined with AND.
bitwise_and(a, b) ==
    CHOOSE out \in {Grid([j \in 1..Len(g[1]) |-> BitAnd(g[1][j], g[2][j], 8)]) :
                       g \in {<<a, b>>}} : TRUE

\* cv2.bitwise_or on two uint8 grids of one size
bitwise_or(a, b) ==
    CHOOSE out \in {Grid([j \in 1..Len(g[1]) |-> BitOr(g[1][j], g[2][j], 8)]) :
                       g \in {<<a, b>>}} : TRUE

\* The integer nearest to sqrt(n), as saturate_cast<int> rounds it.
RoundSqrt(n) == CHOOSE d \in 0..n : /\ d = 0 \/ (2 * d - 1) * (2 * d - 1) < 4 * n
                                    /\ 4 * n < (2 * d + 1) * (2 * d + 1)

\* cv2.getStructuringElement(cv2.MORPH_ELLIPSE, (k, k)), k odd, as the set of
\* offsets <<dx, dy>> from the anchor (the centre): row dy spans
\* |dx| <= round(r * sqrt((r*r - dy*dy) / (r*r))), r = k \div 2.
EllipseKernel(k) ==
    LET r == k \div 2
    IN  UNION {{<<dx, dy>> : dx \in -RoundSqrt(r * r - dy * dy)..RoundSqrt(r * r - dy * dy)} :
                  dy \in -r..r}

Kernel7 == EllipseKernel(KernelSize)

\* One iteration of cv2.dilate: each cell becomes the maximum over the kernel
\* placed on it; cells beyond the border do not take part.
dilate1(img, w, h, kernel) ==
    CHOOSE out \in
        {Grid([j \in 1..(w * h) |->
            LET x == XOf(w, j)
                y == YOf(w, j)
            IN  Max({g[At(w, x + o[1], y + o[2])] :
                        o \in {k \in kernel : /\ 0 <= x + k[1] /\ x + k[1] < w
                                              /\ 0 <= y + k[2] /\ y + k[2] < h}})]) :
            g \in {img}} : TRUE

RECURSIVE dilate(_, _, _, _, _)
dilate(img, w, h, kernel, iterations) ==
    IF iterations = 0 THEN img
    ELSE dilate(dilate1(img, w, h, kernel), w, h, kernel, iterations - 1)

\* ------------------------------------------------------------------ frames

\* A frame of w x h pixels, every pixel grey (B = G = R, so that
\* cv2.cvtColor(.., COLOR_BGR2GRAY) gives the level itself): level bg
\* everywhere except on its blobs, axis-aligned rectangles [x, y, bw, bh, lum]
\* of level lum, in frame coordinates, that do not touch one another.
FrameOf(w, h, bg, blobs) == [w |-> w, h |-> h, bg |-> bg, blobs |-> blobs]

\* ---------------------------------------------------------------- detector

roi_y(h) == IntPercent(h, RoiYPercent)

roi_x(w) == IntPercent(w, RoiXPercent)

\* cv2.threshold(gray, 200, 255, THRESH_BINARY) on one cell
threshold(v) == IF v > BrightThreshold THEN ThresholdMaxval ELSE 0

\* The clip of a blob to the analysed sub-rectangle frame[roi_y:, roi_x:],
\* in sub-rectangle coordinates, as a box [x, y, cw, ch].
ClipToRoi(frame, b) ==
    LET left == MaxOf(b.x, roi_x(frame.w)) - roi_x(frame.w)
        top == MaxOf(b.y, roi_y(frame.h)) - roi_y(frame.h)
        right == MinOf(b.x + b.bw, frame.w) - roi_x(frame.w)
        bottom == MinOf(b.y + b.bh, frame.h) - roi_y(frame.h)
    IN  [x |-> left, y |-> top, cw |-> right - left, ch |-> bottom - top]

\* cv2.findContours(thresh, RETR_EXTERNAL, CHAIN_APPROX_SIMPLE) with, for each
\* contour, its cv2.boundingRect and cv2.contourArea: one outer contour per
\* connected bright component of the thresholded sub-rectangle.  Over a bright
\* background the whole sub-rectangle is one component; over a dark one each
\* bright blob reaching into the sub-rectangle is a component.  The contour
\* of a filled cw x ch rectangle runs through the centres of its border
\* pixels and encloses (cw - 1) * (ch - 1).
findContours(frame) ==
    LET rw == frame.w - roi_x(frame.w)
        rh == frame.h - roi_y(frame.h)
        boxes ==
            IF threshold(frame.bg) # 0
            THEN {[x |-> 0, y |-> 0, cw |-> rw, ch |-> rh]}
            ELSE {c \in {ClipToRoi(frame, b) :
                            b \in {bb \in frame.blobs : threshold(bb.lum) # 0}} :
                    c.cw > 0 /\ c.ch > 0}
    IN  {[x |-> c.x, y |-> c.y, cw |-> c.cw, ch |-> c.ch,
          area |-> (c.cw - 1) * (c.ch - 1)] : c \in boxes}

\* The size filter of the contour loop.
Accepted(c) ==
    /\ MinArea < c.area /\ c.area < MaxArea
    /\ MinBoxW < c.cw /\ c.cw < MaxBoxW
    /\ MinBoxH < c.ch /\ c.ch < MaxBoxH

\* The rectangle drawn for one accepted contour.
DrawContour(mask, w, h, c) ==
    LET x1 == MaxOf(0, c.x - pad) + roi_x(w)
        y1 == MaxOf(0, c.y - pad) + roi_y(h)
    IN  rectangle(mask, w, h, x1, y1, x1 + c.cw + pad * 2, y1 + c.ch + pad * 2,
                  DetectedColor)

RECURSIVE DrawContours(_, _, _, _)
\* The contour loop: every accepted contour is drawn, all in one colour.
DrawContours(mask, w, h, cs) ==
    IF cs = {} THEN mask
    ELSE LET c == CHOOSE k \in cs : TRUE
         IN  DrawContours(IF Accepted(c) THEN DrawContour(mask, w, h, c) ELSE mask,
                          w, h, cs \ {c})

margin_x(w) == IntPercent(w, MarginPercent)

margin_y(h) == IntPercent(h, MarginPercent)

wm_w(w) == IntPercent(w, WmWPercent)

wm_h(h) == IntPercent(h, WmHPercent)

\* Variant of watermark_region: no region is marked.
watermark_region_empty(w, h) == zeros(w, h)

\* The grid holding the fixed bottom-right region alone.
watermark_region(w, h) ==
    rectangle(zeros(w, h), w, h,
              w - margin_x(w) - wm_w(w), h - margin_y(h) - wm_h(h),
              w - margin_x(w), h - margin_y(h),
              PriorColor)

\* The mask of a frame that has pixels: a grid of the frame's size.
detect_mask(frame) ==
    LET w == frame.w
        h == frame.h
        detected == DrawContours(zeros(w, h), w, h, findContours(frame))
        combined == bitwise_or(detected, watermark_region(w, h))
    IN  [w |-> w, h |-> h,
         px |-> dilate(combined, w, h, Kernel7, DilateIterations)]

\* The outcome of a call: a value, or the exception it raises.
Ok(v) == [ok |-> TRUE, val |-> v, err |-> ""]

Raise(e) == [ok |-> FALSE, val |-> <<>>, err |-> e]

\* roi = frame[roi_y:, roi_x:] has no pixel.
roi_empty(frame) ==
    frame.w - roi_x(frame.w) = 0 \/ frame.h - roi_y(frame.h) = 0

\* The call: cv2.cvtColor raises cv2.error on a sub-rectangle without
\* pixels, and nothing in the function catches it.
detect_sora_watermark(frame) ==
    IF roi_empty(frame) THEN Raise("cv2.error") ELSE Ok(detect_mask(frame))

\* ----------------------------------------------------------- reconstructor

InpaintRadius == 5
EdgeInpaintRadius == 3
EdgeDilateIterations == 2

\* cv2.inpaint(src, mask, radius, INPAINT_TELEA): an image of src's size;
\* OpenCV's size assertion fails when the mask is not of src's size.
inpaint(src, mask, radius) ==
    IF src.w = mask.w /\ src.h = mask.h
    THEN Ok([w |-> src.w, h |-> src.h, op |-> "inpaint", radius |-> radius,
             src |-> src, mask |-> mask])
    ELSE Raise("cv2.error")

remove_watermark_inpaint(frame, mask) == inpaint(frame, mask, InpaintRadius)

\* numpy broadcasting of two extents: equal, or one of them 1.
Broadcastable(a, b) == a = b \/ a = 1 \/ b = 1

\* The shape [w, h] of an elementwise numpy operation on two arrays (their
\* third axis, the 3 channels, always agrees), or None when numpy raises
\* ValueError (operands could not be broadcast together).
BroadcastShape(a, b) ==
    IF Broadcastable(a.w, b.w) /\ Broadcastable(a.h, b.h)
    THEN Some([w |-> MaxOf(a.w, b.w), h |-> MaxOf(a.h, b.h)])
    ELSE None

\* (result * (1 - mask_3ch) + prev_frame * mask_3ch).astype(uint8)
blend(frame, mask, prev_frame) ==
    LET left == BroadcastShape(frame, mask)
        right == BroadcastShape(prev_frame, mask)
    IN  IF left = None \/ right = None THEN Raise("ValueError")
        ELSE LET both == BroadcastShape(TheValue(left), TheValue(right))
             IN  IF both = None THEN Raise("ValueError")
                 ELSE Ok([w |-> TheValue(both).w, h |-> TheValue(both).h,
                          op |-> "blend", cur |-> frame, mask |-> mask,
                          prev |-> prev_frame])

\* cv2.dilate(cv2.Canny(mask, 50, 150), None, iterations=2): a grid of the
\* mask's size.
edge_mask(mask) ==
    [w |-> mask.w, h |-> mask.h, op |-> "edges", of |-> mask,
     iterations |-> EdgeDilateIterations]

\* Variant of remove_watermark_smart: the second inpainting takes the whole
\* mask, not its edge band.
remove_watermark_smart_whole_mask(frame, mask, prev_frame) ==
    IF prev_frame # None
    THEN LET result == blend(frame, mask, TheValue(prev_frame))
         IN  IF ~result.ok THEN result
             ELSE inpaint(result.val, mask, EdgeInpaintRadius)
    ELSE remove_watermark_inpaint(frame, mask)

\* prev_frame is None or Some(frame).
remove_watermark_smart(frame, mask, prev_frame) ==
    IF prev_frame # None
    THEN LET result == blend(frame, mask, TheValue(prev_frame))
         IN  IF ~result.ok THEN result
             ELSE inpaint(result.val, edge_mask(mask), EdgeInpaintRadius)
    ELSE remove_watermark_inpaint(frame, mask)

\* ------------------------------------------------------- pixel values

\* The grey levels of the pixels of a frame given by background and blobs.
frame_pixels(frame) ==
    CHOOSE out \in
        {Grid([j \in 1..(f.w * f.h) |->
            LET on == {b \in f.blobs :
                          /\ b.x <= XOf(f.w, j) /\ XOf(f.w, j) < b.x + b.bw
                          /\ b.y <= YOf(f.w, j) /\ YOf(f.w, j) < b.y + b.bh}
            IN  IF on = {} THEN f.bg ELSE (CHOOSE b \in on : TRUE).lum]) :
            f \in {frame}} : TRUE

\* The triples <<m, cur, prev>> among the levels used here for which the
\* double arithmetic of cur * (1 - m / 255.0) + prev * (m / 255.0) ends just
\* below the integer that the exact value is, so that astype(uint8) gives
\* one less: 5 * (1 - 204 / 255.0) is 0.9999999999999998.  For m = 0, 128
\* and 255, the levels the detector produces, no pair of levels does this.
FloatShort ==
    {<<204, 5, 0>>, <<204, 10, 0>>, <<204, 20, 0>>, <<204, 200, 0>>,
     <<204, 255, 0>>, <<204, 255, 50>>}

\* Variant of blend_px: the weights of the two frames are exchanged.
blend_px_swapped(cur, m, prev) == (cur * m + prev * (255 - m)) \div 255

\* One cell of (result * (1 - mask_3ch) + prev_frame * mask_3ch).astype(uint8)
blend_px(cur, m, prev) ==
    (cur * (255 - m) + prev * m) \div 255
        - (IF <<m, cur, prev>> \in FloatShort THEN 1 ELSE 0)

\* The cell of an operand that numpy broadcasting pairs with cell (x, y).
Bx(g, w, h, x, y) ==
    g[At(w, IF w = 1 THEN 0 ELSE x, IF h = 1 THEN 0 ELSE y)]

\* The blend of line 101 on grids: cur, mask and prev with their sizes, the
\* result of size w x h.
blend_pixels(cur, cs, msk, ms, prev, ps, w, h) ==
    CHOOSE out \in
        {Grid([j \in 1..(w * h) |->
            blend_px(Bx(g[1], cs.w, cs.h, XOf(w, j), YOf(w, j)),
                     Bx(g[2], ms.w, ms.h, XOf(w, j), YOf(w, j)),
                     Bx(g[3], ps.w, ps.h, XOf(w, j), YOf(w, j)))]) :
            g \in {<<cur, msk, prev>>}} : TRUE

\* ---- cv2.Canny(mask, 50, 150): Sobel gradient of aperture 3 with the
\* border replicated, magnitude |gx| + |gy|, non-maximum suppression along
\* the gradient direction, hysteresis between the two thresholds.

CannyLow == 50
CannyHigh == 150
Tg22 == 13573
TgShift == 32768

Abs(v) == IF v < 0 THEN -v ELSE v

Clamp(v, lo, hi) == IF v < lo THEN lo ELSE IF v > hi THEN hi ELSE v

\* The cell (x, y) of a grid, the border replicated.
Rep(g, w, h, x, y) == g[At(w, Clamp(x, 0, w - 1), Clamp(y, 0, h - 1))]

sobel_x(g, w, h, x, y) ==
    (Rep(g, w, h, x + 1, y - 1) - Rep(g, w, h, x - 1, y - 1))
    + 2 * (Rep(g, w, h, x + 1, y) - Rep(g, w, h, x - 1, y))
    + (Rep(g, w, h, x + 1, y + 1) - Rep(g, w, h, x - 1, y + 1))

sobel_y(g, w, h, x, y) ==
    (Rep(g, w, h, x - 1, y + 1) - Rep(g, w, h, x - 1, y - 1))
    + 2 * (Rep(g, w, h, x, y + 1) - Rep(g, w, h, x, y - 1))
    + (Rep(g, w, h, x + 1, y + 1) - Rep(g, w, h, x + 1, y - 1))

\* The grids of gx, gy and of the magnitude.
gradients(img, w, h) ==
    CHOOSE out \in
        {LET gx == Grid([j \in 1..(w * h) |-> sobel_x(g, w, h, XOf(w, j), YOf(w, j))])
             gy == Grid([j \in 1..(w * h) |-> sobel_y(g, w, h, XOf(w, j), YOf(w, j))])
         IN  [gx |-> gx, gy |-> gy,
              mag |-> Grid([j \in 1..(w * h) |-> Abs(gx[j]) + Abs(gy[j])])] :
            g \in {img}} : TRUE

\* The magnitude at (x, y), 0 beyond the border.
MagAt(mag, w, h, x, y) ==
    IF 0 <= x /\ x < w /\ 0 <= y /\ y < h THEN mag[At(w, x, y)] ELSE 0

\* Cell j is a local maximum of the magnitude along its gradient direction.
LocalMax(d, w, h, j) ==
    LET x == XOf(w, j)
        y == YOf(w, j)
        m == d.mag[j]
        ax == Abs(d.gx[j])
        ay == Abs(d.gy[j]) * TgShift
        tg22x == ax * Tg22
        tg67x == tg22x + ax * 2 * TgShift
        s == IF (d.gx[j] < 0) # (d.gy[j] < 0) THEN -1 ELSE 1
    IN  IF ay < tg22x
        THEN m > MagAt(d.mag, w, h, x - 1, y) /\ m >= MagAt(d.mag, w, h, x + 1, y)
        ELSE IF ay > tg67x
        THEN m > MagAt(d.mag, w, h, x, y - 1) /\ m >= MagAt(d.mag, w, h, x, y + 1)
        ELSE /\ m > MagAt(d.mag, w, h, x - s, y - 1)
             /\ m > MagAt(d.mag, w, h, x + s, y + 1)

Adjacent(w, j, k) ==
    /\ j # k
    /\ Abs(XOf(w, j) - XOf(w, k)) <= 1
    /\ Abs(YOf(w, j) - YOf(w, k)) <= 1

RECURSIVE Grow(_, _, _)
\* Hysteresis: the candidates linked to an edge cell become edge cells.
Grow(edges, candidates, w) ==
    LET more == {j \in candidates \ edges : \E k \in edges : Adjacent(w, j, k)}
    IN  IF more = {} THEN edges ELSE Grow(edges \cup more, candidates, w)

Canny(img, w, h) ==
    LET d == gradients(img, w, h)
        maxima == {j \in 1..(w * h) : d.mag[j] > CannyLow /\ LocalMax(d, w, h, j)}
        strong == {j \in maxima : d.mag[j] > CannyHigh}
        edges == Grow(strong, maxima, w)
    IN  Grid([j \in 1..(w * h) |-> IF j \in edges THEN 255 ELSE 0])

\* The 3 x 3 rectangle cv2.dilate uses for kernel None.
Kernel3 == {<<dx, dy>> : dx \in -1..1, dy \in -1..1}

\* The grid of a mask: its cells, or for the edge band
\* cv2.dilate(cv2.Canny(mask, 50, 150), None, iterations=2).
mask_pixels(mask) ==
    IF "px" \in DOMAIN mask THEN mask.px
    ELSE dilate(Canny(mask.of.px, mask.w, mask.h), mask.w, mask.h, Kernel3,
                mask.iterations)

\* ---- cv2.inpaint(src, mask, radius, INPAINT_TELEA).  The cells where the
\* mask is 0 are known and are copied.  The others are filled, those nearest
\* to known cells first, each with a weighted mean of the cells within the
\* radius that are known or already filled: a level between the least and
\* the greatest of these, which one depending on weights that are not
\* modelled.  `fill` picks it.  With no known cell at all the fill has
\* nothing to start from and the image is returned as it is.

Fills == {"least", "greatest", "mean"}

Min(S) == CHOOSE v \in S : \A u \in S : v <= u

FillLevel(S, fill) ==
    CASE fill = "least" -> Min(S)
      [] fill = "greatest" -> Max(S)
      [] fill = "mean" -> (Min(S) + Max(S)) \div 2

\* The offsets within a radius.
Disc(radius) ==
    {o \in {<<dx, dy>> : dx \in -radius..radius, dy \in -radius..radius} :
        o[1] * o[1] + o[2] * o[2] <= radius * radius}

\* The cells within the radius of cell j that are not in `unknown`.
KnownNear(unknown, w, h, j, disc) ==
    LET x == XOf(w, j)
        y == YOf(w, j)
    IN  {At(w, x + o[1], y + o[2]) :
            o \in {k \in disc : /\ 0 <= x + k[1] /\ x + k[1] < w
                                /\ 0 <= y + k[2] /\ y + k[2] < h
                                /\ At(w, x + k[1], y + k[2]) \notin unknown}}

RECURSIVE fill_rounds(_, _, _, _, _, _)
\* The image once the cells of `unknown` are filled, round after round the
\* cells that have a known or filled cell within the radius.
fill_rounds(img, unknown, w, h, disc, fill) ==
    IF unknown = {} THEN img
    ELSE LET step ==
                 CHOOSE r \in
                     {LET ready == {j \in unknown :
                                       KnownNear(unknown, w, h, j, disc) # {}}
                      IN  [ready |-> ready,
                           img |-> Grid([j \in 1..(w * h) |->
                               IF j \in ready
                               THEN FillLevel({g[k] : k \in KnownNear(unknown, w, h,
                                                                      j, disc)},
                                              fill)
                               ELSE g[j]])] : g \in {img}} : TRUE
         IN  fill_rounds(step.img, unknown \ step.ready, w, h, disc, fill)

\* Variant of inpaint_pixels: the cells outside the mask are not copied but
\* left at 0.
inpaint_pixels_uncopied(src, msk, w, h, radius, fill) ==
    LET unknown == {j \in 1..(w * h) : msk[j] # 0}
    IN  IF Cardinality(unknown) = w * h THEN src
        ELSE CHOOSE out \in
                 {Grid([j \in 1..(w * h) |-> IF j \in unknown THEN g[j] ELSE 0]) :
                     g \in {fill_rounds(src, unknown, w, h, Disc(radius), fill)}} :
                 TRUE

inpaint_pixels(src, msk, w, h, radius, fill) ==
    LET unknown == {j \in 1..(w * h) : msk[j] # 0}
    IN  IF Cardinality(unknown) = w * h THEN src
        ELSE fill_rounds(src, unknown, w, h, Disc(radius), fill)

RECURSIVE pixels(_, _)
\* The grey levels of a frame: of an input frame, or of the frame that a
\* blend or an inpainting returned.
pixels(t, fill) ==
    IF "blobs" \in DOMAIN t THEN frame_pixels(t)
    ELSE IF t.op = "blend"
    THEN blend_pixels(pixels(t.cur, fill), t.cur, mask_pixels(t.mask), t.mask,
                      pixels(t.prev, fill), t.prev, t.w, t.h)
    ELSE inpaint_pixels(pixels(t.src, fill), mask_pixels(t.mask), t.w, t.h,
                        t.radius, fill)

\* ---------------------------------------------------------------- state

VARIABLES
    pc,                \* position of process_video_watermark
    source,            \* the frames the input file holds, in order
    cap_open,          \* cap is opened and not released
    cap_pos,           \* CAP_PROP_POS_FRAMES of cap: index of the next frame
    out_open,          \* out is opened and not released
    sink,              \* the frames written to out, in order
    frame_count,       \* CAP_PROP_FRAME_COUNT as read at the start
    prev_clean_frame,  \* None or Some(frame)
    ret,               \* the flag of the last cap.read()
    first_frame,       \* None or Some(frame)
    watermark_mask,    \* None or Some(mask)
    frame,             \* None or Some(frame): the frame of the last loop read
    clean_frame,       \* None or Some(frame)
    frame_idx,
    reports,           \* the progress lines printed, as <<frame_idx, frame_count>>
    raised,            \* "" or the exception that left the function
    detect_log,        \* the argument of every call of detect_sora_watermark
    smart_log,         \* the arguments of every call of remove_watermark_smart
    u_fn,              \* the function called on its own ("" in a driver run)
    u_args,            \* its arguments
    u_ret,             \* None or Some(outcome)
    jobs,              \* the server's dictionary of jobs, by job id
    disk,              \* the frames of the video file under each path
    inv,               \* the locals of each running invocation, by job id
    reply              \* None or Some(the server's answer to the last request)

dvars == <<pc, source, cap_open, cap_pos, out_open, sink, frame_count,
           prev_clean_frame, ret, first_frame, watermark_mask, frame,
           clean_frame, frame_idx, reports, raised, detect_log, smart_log>>

uvars == <<u_fn, u_args, u_ret>>

svars == <<jobs, disk, inv, reply>>

vars == <<dvars, uvars, svars>>

\* ----------------------------------------------------------- frame source

\* Frame sizes of the input files of a driver run.
DriverSizes == {<<13, 25>>, <<25, 25>>}

\* The k-th frame (k = 1 is frame 0) of an input file: frames differ from one
\* another in content, and a file may change its frame size in mid-stream.
SourceFrames(k) == {FrameOf(sz[1], sz[2], 10 * k, {}) : sz \in DriverSizes}

Sources ==
    UNION {{s \in [1..n -> UNION {SourceFrames(k) : k \in 1..n}] :
               \A k \in 1..n : s[k] \in SourceFrames(k)} : n \in 0..MaxFrames}

\* cap.read(): the flag and the frame at the position, which then advances.
CapRead(src, position) ==
    IF position < Len(src)
    THEN [ret |-> TRUE, frame |-> Some(src[position + 1]), pos |-> position + 1]
    ELSE [ret |-> FALSE, frame |-> None, pos |-> position]

\* ------------------------------------------------------- sequence driver

UnitIdle == u_fn = "" /\ u_args = <<>> /\ u_ret = None

\* No server runs.
ServerIdle == jobs = <<>> /\ disk = <<>> /\ inv = <<>> /\ reply = None

Init ==
    /\ pc = "open"
    /\ source \in Sources
    /\ cap_open = FALSE
    /\ cap_pos = 0
    /\ out_open = FALSE
    /\ sink = <<>>
    /\ frame_count = 0
    /\ prev_clean_frame = None
    /\ ret = FALSE
    /\ first_frame = None
    /\ watermark_mask = None
    /\ frame = None
    /\ clean_frame = None
    /\ frame_idx = 0
    /\ reports = <<>>
    /\ raised = ""
    /\ detect_log = <<>>
    /\ smart_log = <<>>
    /\ UnitIdle
    /\ ServerIdle

\* cap = cv2.VideoCapture(..); frame_count = ..; out = cv2.VideoWriter(..);
\* prev_clean_frame = None
Open ==
    /\ pc = "open"
    /\ cap_open' = TRUE
    /\ cap_pos' = 0
    /\ frame_count' = Len(source)
    /\ out_open' = TRUE
    /\ prev_clean_frame' = None
    /\ pc' = "read_first"
    /\ UNCHANGED <<source, sink, ret, first_frame, watermark_mask, frame,
                   clean_frame, frame_idx, reports, raised, detect_log,
                   smart_log, uvars, svars>>

\* Variant of ReadFirst: the flag of the read is not checked, and a failed
\* read goes on without a mask.
ReadFirstUnchecked ==
    /\ pc = "read_first"
    /\ LET r == CapRead(source, cap_pos)
       IN  /\ ret' = r.ret
           /\ first_frame' = r.frame
           /\ cap_pos' = r.pos
           /\ pc' = IF r.ret THEN "detect" ELSE "rewind"
    /\ UNCHANGED <<source, cap_open, out_open, sink, frame_count,
                   prev_clean_frame, watermark_mask, frame, clean_frame,
                   frame_idx, reports, raised, detect_log, smart_log, uvars, svars>>

\* ret, first_frame = cap.read(); if not ret: raise ValueError
ReadFirst ==
    /\ pc = "read_first"
    /\ LET r == CapRead(source, cap_pos)
       IN  /\ ret' = r.ret
           /\ first_frame' = r.frame
           /\ cap_pos' = r.pos
           /\ IF r.ret
              THEN pc' = "detect" /\ raised' = raised
              ELSE pc' = "raised" /\ raised' = "ValueError"
    /\ UNCHANGED <<source, cap_open, out_open, sink, frame_count,
                   prev_clean_frame, watermark_mask, frame, clean_frame,
                   frame_idx, reports, detect_log, smart_log, uvars, svars>>

\* watermark_mask = detect_sora_watermark(first_frame)
DetectMask ==
    /\ pc = "detect"
    /\ LET r == detect_sora_watermark(TheValue(first_frame))
       IN  IF r.ok
           THEN watermark_mask' = Some(r.val) /\ pc' = "rewind" /\ raised' = raised
           ELSE watermark_mask' = watermark_mask /\ pc' = "raised" /\ raised' = r.err
    /\ detect_log' = Append(detect_log, TheValue(first_frame))
    /\ UNCHANGED <<source, cap_open, cap_pos, out_open, sink, frame_count,
                   prev_clean_frame, ret, first_frame, frame, clean_frame,
                   frame_idx, reports, smart_log, uvars, svars>>

\* Variant of Rewind: the position is left where the first read put it.
RewindNoSeek ==
    /\ pc = "rewind"
    /\ frame_idx' = 0
    /\ pc' = "loop"
    /\ UNCHANGED <<source, cap_open, cap_pos, out_open, sink, frame_count,
                   prev_clean_frame, ret, first_frame, watermark_mask, frame,
                   clean_frame, reports, raised, detect_log, smart_log, uvars, svars>>

\* cap.set(cv2.CAP_PROP_POS_FRAMES, 0); frame_idx = 0
Rewind ==
    /\ pc = "rewind"
    /\ cap_pos' = 0
    /\ frame_idx' = 0
    /\ pc' = "loop"
    /\ UNCHANGED <<source, cap_open, out_open, sink, frame_count,
                   prev_clean_frame, ret, first_frame, watermark_mask, frame,
                   clean_frame, reports, raised, detect_log, smart_log, uvars, svars>>

\* Variant of LoopRead: the loop is also left after the first frame.
LoopReadBreaksEarly ==
    /\ pc = "loop"
    /\ LET r == CapRead(source, cap_pos)
       IN  /\ ret' = r.ret
           /\ frame' = r.frame
           /\ cap_pos' = r.pos
           /\ pc' = IF r.ret /\ frame_idx = 0 THEN "reconstruct" ELSE "release_cap"
    /\ UNCHANGED <<source, cap_open, out_open, sink, frame_count,
                   prev_clean_frame, first_frame, watermark_mask, clean_frame,
                   frame_idx, reports, raised, detect_log, smart_log, uvars, svars>>

\* ret, frame = cap.read(); if not ret: break
LoopRead ==
    /\ pc = "loop"
    /\ LET r == CapRead(source, cap_pos)
       IN  /\ ret' = r.ret
           /\ frame' = r.frame
           /\ cap_pos' = r.pos
           /\ pc' = IF r.ret THEN "reconstruct" ELSE "release_cap"
    /\ UNCHANGED <<source, cap_open, out_open, sink, frame_count,
                   prev_clean_frame, first_frame, watermark_mask, clean_frame,
                   frame_idx, reports, raised, detect_log, smart_log, uvars, svars>>

\* Variant of Reconstruct: the mask is detected again on every frame.
ReconstructRedetect ==
    /\ pc = "reconstruct"
    /\ watermark_mask' = Some(detect_sora_watermark(TheValue(frame)).val)
    /\ detect_log' = Append(detect_log, TheValue(frame))
    /\ LET r == remove_watermark_smart(TheValue(frame), TheValue(watermark_mask'),
                                       prev_clean_frame)
       IN  IF r.ok
           THEN clean_frame' = Some(r.val) /\ pc' = "write" /\ raised' = raised
           ELSE clean_frame' = clean_frame /\ pc' = "raised" /\ raised' = r.err
    /\ smart_log' = Append(smart_log,
                           [idx |-> frame_idx, frame |-> TheValue(frame),
                            mask |-> TheValue(watermark_mask'),
                            prev_frame |-> prev_clean_frame])
    /\ UNCHANGED <<source, cap_open, cap_pos, out_open, sink, frame_count,
                   prev_clean_frame, ret, first_frame, frame, frame_idx,
                   reports, uvars, svars>>

\* Variant of Reconstruct: a frame whose reconstruction fails is skipped and
\* the loop goes on.
ReconstructSkipsFailure ==
    /\ pc = "reconstruct"
    /\ LET r == remove_watermark_smart(TheValue(frame), TheValue(watermark_mask),
                                       prev_clean_frame)
       IN  IF r.ok
           THEN clean_frame' = Some(r.val) /\ pc' = "write"
           ELSE clean_frame' = clean_frame /\ pc' = "loop"
    /\ smart_log' = Append(smart_log,
                           [idx |-> frame_idx, frame |-> TheValue(frame),
                            mask |-> TheValue(watermark_mask),
                            prev_frame |-> prev_clean_frame])
    /\ UNCHANGED <<source, cap_open, cap_pos, out_open, sink, frame_count,
                   prev_clean_frame, ret, first_frame, watermark_mask, frame,
                   frame_idx, reports, raised, detect_log, uvars, svars>>

\* clean_frame = remove_watermark_smart(frame, watermark_mask, prev_clean_frame);
\* an exception of the call leaves the function.
Reconstruct ==
    /\ pc = "reconstruct"
    /\ LET r == remove_watermark_smart(TheValue(frame), TheValue(watermark_mask),
                                       prev_clean_frame)
       IN  IF r.ok
           THEN clean_frame' = Some(r.val) /\ pc' = "write" /\ raised' = raised
           ELSE clean_frame' = clean_frame /\ pc' = "raised" /\ raised' = r.err
    /\ smart_log' = Append(smart_log,
                           [idx |-> frame_idx, frame |-> TheValue(frame),
                            mask |-> TheValue(watermark_mask),
                            prev_frame |-> prev_clean_frame])
    /\ UNCHANGED <<source, cap_open, cap_pos, out_open, sink, frame_count,
                   prev_clean_frame, ret, first_frame, watermark_mask, frame,
                   frame_idx, reports, detect_log, uvars, svars>>

\* out.write(clean_frame)
Write ==
    /\ pc = "write"
    /\ sink' = Append(sink, TheValue(clean_frame))
    /\ pc' = "set_prev"
    /\ UNCHANGED <<source, cap_open, cap_pos, out_open, frame_count,
                   prev_clean_frame, ret, first_frame, watermark_mask, frame,
                   clean_frame, frame_idx, reports, raised, detect_log,
                   smart_log, uvars, svars>>

\* Variant of SetPrev: the reference is not updated.
SetPrevKeepsOld ==
    /\ pc = "set_prev"
    /\ pc' = "advance"
    /\ UNCHANGED <<source, cap_open, cap_pos, out_open, sink, frame_count,
                   prev_clean_frame, ret, first_frame, watermark_mask, frame,
                   clean_frame, frame_idx, reports, raised, detect_log,
                   smart_log, uvars, svars>>

\* prev_clean_frame = clean_frame
SetPrev ==
    /\ pc = "set_prev"
    /\ prev_clean_frame' = clean_frame
    /\ pc' = "advance"
    /\ UNCHANGED <<source, cap_open, cap_pos, out_open, sink, frame_count,
                   ret, first_frame, watermark_mask, frame, clean_frame,
                   frame_idx, reports, raised, detect_log, smart_log, uvars, svars>>

\* Variant of Advance: the count is tested before it is incremented.
AdvanceReportsEarly ==
    /\ pc = "advance"
    /\ frame_idx' = frame_idx + 1
    /\ reports' = IF frame_idx % ProgressEvery = 0
                  THEN Append(reports, <<frame_idx, frame_count>>)
                  ELSE reports
    /\ pc' = "loop"
    /\ UNCHANGED <<source, cap_open, cap_pos, out_open, sink, frame_count,
                   prev_clean_frame, ret, first_frame, watermark_mask, frame,
                   clean_frame, raised, detect_log, smart_log, uvars, svars>>

\* frame_idx += 1; if frame_idx % 30 == 0: print(..)
Advance ==
    /\ pc = "advance"
    /\ frame_idx' = frame_idx + 1
    /\ reports' = IF (frame_idx + 1) % ProgressEvery = 0
                  THEN Append(reports, <<frame_idx + 1, frame_count>>)
                  ELSE reports
    /\ pc' = "loop"
    /\ UNCHANGED <<source, cap_open, cap_pos, out_open, sink, frame_count,
                   prev_clean_frame, ret, first_frame, watermark_mask, frame,
                   clean_frame, raised, detect_log, smart_log, uvars, svars>>

\* cap.release()
ReleaseCap ==
    /\ pc = "release_cap"
    /\ cap_open' = FALSE
    /\ pc' = "release_out"
    /\ UNCHANGED <<source, cap_pos, out_open, sink, frame_count,
                   prev_clean_frame, ret, first_frame, watermark_mask, frame,
                   clean_frame, frame_idx, reports, raised, detect_log,
                   smart_log, uvars, svars>>

\* Variant of ReleaseOut: the function returns with the sink still open.
ReleaseOutSkipped ==
    /\ pc = "release_out"
    /\ pc' = "done"
    /\ UNCHANGED <<source, cap_open, cap_pos, out_open, sink, frame_count,
                   prev_clean_frame, ret, first_frame, watermark_mask, frame,
                   clean_frame, frame_idx, reports, raised, detect_log,
                   smart_log, uvars, svars>>

\* out.release(), and the function returns
ReleaseOut ==
    /\ pc = "release_out"
    /\ out_open' = FALSE
    /\ pc' = "done"
    /\ UNCHANGED <<source, cap_open, cap_pos, sink, frame_count,
                   prev_clean_frame, ret, first_frame, watermark_mask, frame,
                   clean_frame, frame_idx, reports, raised, detect_log,
                   smart_log, uvars, svars>>

Next ==
    \/ Open
    \/ ReadFirst
    \/ DetectMask
    \/ Rewind
    \/ LoopRead
    \/ Reconstruct
    \/ Write
    \/ SetPrev
    \/ Advance
    \/ ReleaseCap
    \/ ReleaseOut

Spec == Init /\ [][Next]_vars

\* ------------------------------------------------------ driver properties

RECURSIVE Reconstruction(_, _, _)
\* The outcome of reconstructing frame k (k = 1 is frame 0) of a frame
\* sequence under a mask, each frame with its predecessor's reconstruction as
\* the previous frame; the first failure, if an earlier frame fails.
Reconstruction(src, mask, k) ==
    IF k = 1 THEN remove_watermark_smart(src[1], mask, None)
    ELSE LET before == Reconstruction(src, mask, k - 1)
         IN  IF before.ok
             THEN remove_watermark_smart(src[k], mask, Some(before.val))
             ELSE before

\* C1: a run over a source of N >= 1 readable frames that returns normally
\* has written exactly N frames, the k-th of them the reconstruction of the
\* k-th source frame (under the mask of frame 0, with the (k-1)-th output as
\* previous frame); frame 0 is written first, not skipped.
C1_OutputMatchesInput ==
    pc = "done" =>
        /\ Len(source) >= 1
        /\ Len(sink) = Len(source)
        /\ \A k \in 1..Len(source) :
              LET r == Reconstruction(source, detect_sora_watermark(source[1]).val, k)
              IN  r.ok /\ sink[k] = r.val
        /\ sink[1].src = source[1]

C1_Witness == pc = "done" /\ Len(sink) >= 2

\* C2: the mask is computed at most once, from frame 0, before any call of
\* the reconstructor and any write; every call of the reconstructor received
\* the mask the driver still holds, and at the end that mask is still the
\* mask of frame 0.
C2_MaskComputedOnce ==
    /\ Len(detect_log) <= 1
    /\ \A i \in DOMAIN detect_log : detect_log[i] = source[1]
    /\ (watermark_mask = None) = (detect_log = <<>>)
    /\ (smart_log # <<>> \/ sink # <<>>) => Len(detect_log) = 1
    /\ \A i \in DOMAIN smart_log : smart_log[i].mask = TheValue(watermark_mask)
    /\ \A k \in DOMAIN sink :
          sink[k].mask = IF k = 1 THEN TheValue(watermark_mask)
                         ELSE edge_mask(TheValue(watermark_mask))
    /\ pc \in {"rewind", "done"} =>
          watermark_mask = Some(detect_sora_watermark(source[1]).val)

C2_Witness == pc = "done" /\ Len(smart_log) >= 2 /\ Len(detect_log) = 1

\* C3: the reconstructor is called for frame 0 with no previous frame and for
\* frame i >= 1 with exactly the frame written as output i-1; the reference
\* changes only after the frame has been written, and then to that frame.
C3_PrevIsLastWritten ==
    /\ \A i \in DOMAIN smart_log :
          /\ smart_log[i].idx = i - 1
          /\ i - 1 <= Len(sink)
          /\ smart_log[i].prev_frame = IF i = 1 THEN None ELSE Some(sink[i - 1])
    /\ pc = "set_prev" =>
          prev_clean_frame = IF Len(sink) = 1 THEN None
                             ELSE Some(sink[Len(sink) - 1])
    /\ pc # "set_prev" =>
          prev_clean_frame = IF sink = <<>> THEN None ELSE Some(sink[Len(sink)])

C3_Witness ==
    /\ Len(smart_log) >= 2
    /\ smart_log[2].prev_frame = Some(sink[1])
    /\ pc = "write"

\* C4: when the first read fails the function raises, and no mask has been
\* computed, the reconstructor has not been called and nothing is written.
C4_FailFast ==
    (Len(source) = 0 /\ pc \notin {"open", "read_first"}) =>
        /\ pc = "raised"
        /\ raised = "ValueError"
        /\ ~ret
        /\ watermark_mask = None
        /\ detect_log = <<>>
        /\ smart_log = <<>>
        /\ sink = <<>>
        /\ frame_idx = 0

C4_Witness == pc = "raised" /\ Len(source) = 0 /\ raised = "ValueError"

\* The phase of the driver: Uninitialized until the mask is there,
\* MaskComputed until frame 0 is read back, Streaming(i) from the read of
\* frame i until the next read, Done once the loop is left, Aborted after an
\* exception.
Phase ==
    CASE pc \in {"idle", "open", "read_first", "detect"} -> <<"Uninitialized">>
      [] pc = "rewind" -> <<"MaskComputed">>
      [] pc = "loop" -> IF frame_idx = 0 THEN <<"MaskComputed">>
                        ELSE <<"Streaming", frame_idx - 1>>
      [] pc \in {"reconstruct", "write", "set_prev", "advance"} ->
            <<"Streaming", frame_idx>>
      [] pc \in {"release_cap", "release_out", "done"} -> <<"Done">>
      [] pc = "raised" -> <<"Aborted">>

PhaseStep(p, q) ==
    \/ q = p
    \/ p = <<"Uninitialized">> /\ q \in {<<"MaskComputed">>, <<"Aborted">>}
    \/ p = <<"MaskComputed">> /\ q = <<"Streaming", 0>>
    \/ /\ p[1] = "Streaming"
       /\ q \in {<<"Streaming", p[2] + 1>>, <<"Done">>, <<"Aborted">>}

PhaseOk ==
    /\ Phase[1] = "Uninitialized" => watermark_mask = None
    /\ Phase[1] \in {"MaskComputed", "Streaming", "Done"} =>
          watermark_mask # None /\ Len(detect_log) = 1
    /\ Phase[1] = "Streaming" =>
          /\ Len(smart_log) \in {Phase[2], Phase[2] + 1}
          /\ Len(sink) \in {Phase[2], Phase[2] + 1}
    /\ Phase[1] = "Done" => ~ret /\ cap_pos = Len(source) /\ Len(sink) = Len(source)

\* C5: the phases follow Uninitialized -> MaskComputed -> Streaming(0) ->
\* Streaming(1) -> ... -> Done (or end in an exception): frame indices grow by
\* one, nothing is streamed before the mask is there, MaskComputed is never
\* entered again, and Done is entered only when the source has no further
\* frame.
C5_PhaseOrder == []PhaseOk /\ [][PhaseStep(Phase, Phase')]_vars

C5_Witness == Phase = <<"Done">> /\ frame_idx >= 2

\* A call of the reconstructor recorded in the log failed.
CallFailed(call) ==
    ~remove_watermark_smart(call.frame, call.mask, call.prev_frame).ok

\* C8: when the reconstructor fails on frame i the function raises that
\* failure at once: the failed call is the last one, exactly the frames
\* 0..i-1 are written, each the reconstruction of its input, and nothing
\* runs after the exception.
C8_FailureAborts ==
    \A i \in DOMAIN smart_log :
        (CallFailed(smart_log[i]) /\ pc # "reconstruct") =>
            /\ pc = "raised"
            /\ raised = remove_watermark_smart(smart_log[i].frame, smart_log[i].mask,
                                               smart_log[i].prev_frame).err
            /\ i = Len(smart_log)
            /\ frame_idx = i - 1
            /\ Len(sink) = i - 1
            /\ \A k \in 1..(i - 1) :
                  LET r == Reconstruction(source, detect_sora_watermark(source[1]).val, k)
                  IN  r.ok /\ sink[k] = r.val
            /\ ~ENABLED Next

C8_Witness ==
    /\ pc = "raised"
    /\ Len(smart_log) >= 2
    /\ CallFailed(smart_log[Len(smart_log)])
    /\ Len(sink) = Len(smart_log) - 1

\* ------------------------------------------------- long input files

\* The longest input file of a run that is followed for its progress lines.
MaxLongFrames == 61

\* Input files of 0..MaxLongFrames frames of one size, each frame with a
\* content of its own.
LongSources ==
    {[k \in 1..n |-> FrameOf(1, 1, k, {})] : n \in 0..MaxLongFrames}

InitLong ==
    /\ pc = "open"
    /\ source \in LongSources
    /\ cap_open = FALSE
    /\ cap_pos = 0
    /\ out_open = FALSE
    /\ sink = <<>>
    /\ frame_count = 0
    /\ prev_clean_frame = None
    /\ ret = FALSE
    /\ first_frame = None
    /\ watermark_mask = None
    /\ frame = None
    /\ clean_frame = None
    /\ frame_idx = 0
    /\ reports = <<>>
    /\ raised = ""
    /\ detect_log = <<>>
    /\ smart_log = <<>>
    /\ UnitIdle
    /\ ServerIdle

SpecLong == InitLong /\ [][Next]_vars

\* The progress lines due once n frames are written.
ReportsDue(n) ==
    [i \in 1..(n \div ProgressEvery) |-> <<ProgressEvery * i, frame_count>>]

ReportsOk ==
    /\ reports = ReportsDue(frame_idx)
    /\ pc \in {"loop", "reconstruct", "release_cap", "release_out", "done"} =>
          frame_idx = Len(sink)

\* A step that prints a progress line prints one line, the pair of the
\* number of frames written and the frame count of the file, and that number
\* is a positive multiple of 30.
ReportStep ==
    reports' # reports =>
        /\ reports' = Append(reports, <<Len(sink), frame_count>>)
        /\ sink' = sink
        /\ Len(sink) > 0
        /\ Len(sink) % ProgressEvery = 0

\* C16: a progress line is printed exactly when the number of frames written
\* is a positive multiple of 30, before the next frame is read: the lines
\* printed are those of 30, 60, ... up to the frames counted, each carrying
\* the number of frames written at that moment and the frame count of the
\* file, and no line is printed at another count.
C16_ProgressEvery30 == []ReportsOk /\ [][ReportStep]_vars

C16_Witness ==
    /\ Len(reports) = 1
    /\ reports[1] = <<ProgressEvery, frame_count>>
    /\ Len(sink) = ProgressEvery + 1

\* ------------------------------------------------------------ release

ReleasedOk ==
    /\ pc \in {"release_cap", "release_out", "done"} =>
          ~ret /\ Len(sink) = Len(source) /\ cap_pos = Len(source)
    /\ pc = "release_out" => ~cap_open
    /\ pc = "done" => ~cap_open /\ ~out_open
    /\ pc \in {"read_first", "detect", "rewind", "loop", "reconstruct",
               "write", "set_prev", "advance"} => cap_open /\ out_open

\* A frame is written only to an open sink that stays open, and the source
\* and the sink are released only once the source has reported its end.
ReleaseStep ==
    /\ sink' # sink => out_open /\ out_open' /\ cap_open
    /\ (cap_open /\ ~cap_open') => ~ret /\ Len(sink) = Len(source)
    /\ (out_open /\ ~out_open') => ~cap_open /\ sink' = sink /\ pc' = "done"

\* C17: when the source reports no further frame the function releases the
\* source and then the sink, after the last frame has been written and
\* before it returns; no frame is written once the sink is released.
C17_ReleaseOnCompletion == []ReleasedOk /\ [][ReleaseStep]_vars

C17_Witness == pc = "done" /\ Len(sink) >= 2 /\ ~cap_open /\ ~out_open

\* ------------------------------------------- the reconstructor on its own

DriverIdle ==
    /\ pc = "idle"
    /\ source = <<>>
    /\ cap_open = FALSE
    /\ cap_pos = 0
    /\ out_open = FALSE
    /\ sink = <<>>
    /\ frame_count = 0
    /\ prev_clean_frame = None
    /\ ret = FALSE
    /\ first_frame = None
    /\ watermark_mask = None
    /\ frame = None
    /\ clean_frame = None
    /\ frame_idx = 0
    /\ reports = <<>>
    /\ raised = ""
    /\ detect_log = <<>>
    /\ smart_log = <<>>

\* Frames, masks and previous frames of every size up to MaxDim x MaxDim.
UnitFrames(level) ==
    {FrameOf(w, h, level, {}) : w \in 1..MaxDim, h \in 1..MaxDim}

UnitMasks ==
    {[w |-> w, h |-> h, px |-> Grid([j \in 1..(w * h) |-> 255])] :
        w \in 1..MaxDim, h \in 1..MaxDim}

\* Calls on frames of PixelW x PixelH whose pixels are followed: a mask of
\* one level on the columns from StripX on (or on every column, or on none),
\* a frame that is plain or carries a bright rectangle on those columns and
\* possibly a second one away from them, no previous frame or a plain one.
PixelW == 9
PixelH == 3
StripX == 5

StripBlob == [x |-> StripX, y |-> 0, bw |-> PixelW - StripX, bh |-> PixelH, lum |-> 255]

OtherBlob == [x |-> 0, y |-> 0, bw |-> 1, bh |-> 1, lum |-> 200]

PixelFrames ==
    {FrameOf(PixelW, PixelH, bg, blobs) :
        bg \in {5, 10, 20}, blobs \in {{}, {StripBlob}, {StripBlob, OtherBlob}}}

StripMask(from, level) ==
    [w |-> PixelW, h |-> PixelH,
     px |-> Grid([j \in 1..(PixelW * PixelH) |->
                    IF XOf(PixelW, j) >= from THEN level ELSE 0])]

PixelMasks ==
    {StripMask(StripX, level) : level \in {128, 204, 255}}
        \cup {StripMask(0, 255), StripMask(PixelW, 255)}

PixelCases ==
    {<<f, m, p>> : f \in PixelFrames, m \in PixelMasks,
                   p \in {None} \cup {Some(FrameOf(PixelW, PixelH, bg, {})) :
                                          bg \in {0, 50}}}

InitSmart ==
    /\ DriverIdle
    /\ u_fn = "remove_watermark_smart"
    /\ u_args \in {<<f, m, p>> : f \in UnitFrames(0), m \in UnitMasks,
                                  p \in {None} \cup {Some(q) : q \in UnitFrames(50)}}
                   \cup PixelCases
    /\ u_ret = None
    /\ ServerIdle

\* remove_watermark_smart(frame, mask, prev_frame) is called and returns or
\* raises.
CallSmart ==
    /\ u_fn = "remove_watermark_smart"
    /\ u_ret = None
    /\ u_ret' = Some(remove_watermark_smart(u_args[1], u_args[2], u_args[3]))
    /\ UNCHANGED <<dvars, u_fn, u_args, svars>>

NextSmart == CallSmart

SpecSmart == InitSmart /\ [][NextSmart]_vars

SameSize(a, b) == a.w = b.w /\ a.h = b.h

\* C6 as claimed: the result is that of remove_watermark_inpaint(frame, mask)
\* whenever the previous frame is absent or not of the frame's size, and the
\* spatio-temporal result only for a previous frame of the frame's size.
C6_FallbackOnMismatch ==
    u_ret # None =>
        LET f == u_args[1]
            m == u_args[2]
            p == u_args[3]
            out == TheValue(u_ret)
        IN  IF p = None \/ ~SameSize(TheValue(p), f)
            THEN out = remove_watermark_inpaint(f, m)
            ELSE out.ok => out.val.radius = EdgeInpaintRadius

\* C7 as claimed: the call fails, returning no frame, exactly when the mask
\* is not of the frame's size.
C7_FailsIffMaskMismatch ==
    u_ret # None =>
        LET f == u_args[1]
            m == u_args[2]
            out == TheValue(u_ret)
        IN  IF SameSize(m, f) THEN out.ok
            ELSE ~out.ok /\ out.val = <<>> /\ out.err # ""

\* --------------------------------------------------- the detector on its own

\* Frame sizes the detector is called on.
DetectSizes ==
    {<<0, 8>>, <<8, 0>>, <<1, 1>>, <<8, 8>>, <<13, 25>>, <<25, 25>>, <<50, 55>>}

Levels == {0, 200, 255}

\* Blobs laid on the analysed sub-rectangle of a w x h frame: one filling
\* it, one filling it but for its 4 leftmost columns, one reaching into it
\* from above left.
BlobsAt(w, h) ==
    LET rx == roi_x(w)
        ry == roi_y(h)
        rw == w - rx
        rh == h - ry
    IN  {[x |-> b[1], y |-> b[2], bw |-> b[3], bh |-> b[4], lum |-> l] :
            b \in {bb \in {<<rx, ry, rw, rh>>, <<rx + 4, ry, rw - 4, rh>>,
                           <<rx - 2, ry - 2, rw, rh>>} :
                      bb[1] >= 0 /\ bb[2] >= 0 /\ bb[3] > 0 /\ bb[4] > 0},
            l \in Levels \ {0}}

DetectFrames ==
    UNION {{FrameOf(sz[1], sz[2], bg, blobs) :
               bg \in Levels,
               blobs \in {{}} \cup {{b} : b \in BlobsAt(sz[1], sz[2])}} :
           sz \in DetectSizes}

InitDetect ==
    /\ DriverIdle
    /\ u_fn = "detect_sora_watermark"
    /\ u_args \in {<<f>> : f \in DetectFrames}
    /\ u_ret = None
    /\ ServerIdle

\* detect_sora_watermark(frame) is called and returns its mask or raises.
CallDetect ==
    /\ u_fn = "detect_sora_watermark"
    /\ u_ret = None
    /\ u_ret' = Some(detect_sora_watermark(u_args[1]))
    /\ UNCHANGED <<dvars, u_fn, u_args, svars>>

NextDetect == CallDetect

SpecDetect == InitDetect /\ [][NextDetect]_vars

\* The positions of the cells of a w x h grid inside the fixed prior
\* rectangle, corners inclusive.
PriorCells(w, h) ==
    {j \in 1..(w * h) :
        /\ w - margin_x(w) - wm_w(w) <= XOf(w, j) /\ XOf(w, j) <= w - margin_x(w)
        /\ h - margin_y(h) - wm_h(h) <= YOf(w, j) /\ YOf(w, j) <= h - margin_y(h)}

\* C9 as claimed: every cell of the returned mask is 0 or 255.
C9_MaskIsBinary ==
    (u_ret # None /\ TheValue(u_ret).ok) =>
        \A j \in 1..Len(TheValue(u_ret).val.px) :
            TheValue(u_ret).val.px[j] \in {0, 255}

\* C10: the returned mask is of the frame's size and marks (holds a nonzero
\* value, which is what the inpainting and the blending act on) every cell of
\* the fixed prior rectangle, with or without detected regions.
C10_MaskContainsPrior ==
    (u_ret # None /\ TheValue(u_ret).ok) =>
        LET f == u_args[1]
            mask == TheValue(u_ret).val
        IN  /\ mask.w = f.w /\ mask.h = f.h
            /\ Len(mask.px) = f.w * f.h
            /\ \A j \in PriorCells(f.w, f.h) : mask.px[j] # 0

C10_Witness ==
    /\ u_ret # None
    /\ Cardinality(PriorCells(u_args[1].w, u_args[1].h)) >= 2
    /\ \E c \in findContours(u_args[1]) : Accepted(c)
    /\ \E j \in PriorCells(u_args[1].w, u_args[1].h) :
          TheValue(u_ret).val.px[j] = 255

\* The cells of the frame inside the bounding box of a contour (given in
\* sub-rectangle coordinates) widened by the padding on its four sides.
PaddedBox(w, h, c) ==
    {j \in 1..(w * h) :
        /\ c.x + roi_x(w) - pad <= XOf(w, j)
        /\ XOf(w, j) <= c.x + roi_x(w) + c.cw - 1 + pad
        /\ c.y + roi_y(h) - pad <= YOf(w, j)
        /\ YOf(w, j) <= c.y + roi_y(h) + c.ch - 1 + pad}

\* C18 as claimed: the rectangle drawn for an accepted contour covers every
\* cell of the frame within 5 pixels of the contour's bounding box, also
\* for a contour within 5 pixels of the left or top edge of the analysed
\* sub-rectangle.
C18_PaddedBoxCovered ==
    (u_ret # None /\ TheValue(u_ret).ok) =>
        LET f == u_args[1]
        IN  \A c \in findContours(f) :
                Accepted(c) =>
                    LET drawn == DrawContour(zeros(f.w, f.h), f.w, f.h, c)
                    IN  \A j \in PaddedBox(f.w, f.h, c) : drawn[j] = DetectedColor

\* C19 as claimed: the call returns a mask for every frame, also for one
\* whose analysed sub-rectangle has no pixel, and the mask is the one built
\* from the fixed prior region alone when no contour is accepted.
C19_NeverFails ==
    u_ret # None =>
        LET f == u_args[1]
            out == TheValue(u_ret)
        IN  /\ out.ok
            /\ out.val.w = f.w /\ out.val.h = f.h
            /\ (\A c \in findContours(f) : ~Accepted(c)) =>
                  out.val.px = dilate(watermark_region(f.w, f.h), f.w, f.h,
                                      Kernel7, DilateIterations)

\* ------------------------------------------------- jobs of the server

\* The longest input file of a background job.
MaxJobFrames == 2

JobIds == {1, 2}

JobSizes == {<<2, 2>>, <<3, 3>>}

\* The input files uploaded for the jobs: frames of 2x2, each with a content
\* of its own, the last one of either size.
JobSources ==
    {[k \in 1..n |-> IF k < n THEN FrameOf(2, 2, 10 * k, {})
                                ELSE FrameOf(sz[1], sz[2], 10 * k, {})] :
        n \in 0..MaxJobFrames, sz \in JobSizes}

\* Variant of WatermarkOutput: one path for every job.
WatermarkOutputShared(job) == <<"tmp", "step1_nowatermark.mp4">>

\* watermark_output = os.path.join(tmpdir, "step1_nowatermark.mp4"), in the
\* temporary directory that process_complete creates for the call.
WatermarkOutput(job) == <<"tmp", job, "step1_nowatermark.mp4">>

Paths == {WatermarkOutput(j) : j \in JobIds}

\* The locals of process_video_watermark at its entry.
Locals(src) ==
    [pc |-> "open", source |-> src, cap_open |-> FALSE, cap_pos |-> 0,
     out_open |-> FALSE, frame_count |-> 0, prev_clean_frame |-> None,
     ret |-> FALSE, first_frame |-> None, watermark_mask |-> None,
     frame |-> None, clean_frame |-> None, frame_idx |-> 0, raised |-> ""]

Returned(st) == st.pc \in {"done", "raised"}

\* One step of process_video_watermark on its locals: the steps of the
\* sequence driver above, for an invocation that is one of several.
process_video_watermark(st) ==
    CASE st.pc = "open" ->
            [st EXCEPT !.cap_open = TRUE, !.cap_pos = 0,
                       !.frame_count = Len(st.source), !.out_open = TRUE,
                       !.prev_clean_frame = None, !.pc = "read_first"]
      [] st.pc = "read_first" ->
            LET r == CapRead(st.source, st.cap_pos)
            IN  [st EXCEPT !.ret = r.ret, !.first_frame = r.frame,
                           !.cap_pos = r.pos,
                           !.pc = IF r.ret THEN "detect" ELSE "raised",
                           !.raised = IF r.ret THEN @ ELSE "ValueError"]
      [] st.pc = "detect" ->
            LET r == detect_sora_watermark(TheValue(st.first_frame))
            IN  IF r.ok
                THEN [st EXCEPT !.watermark_mask = Some(r.val), !.pc = "rewind"]
                ELSE [st EXCEPT !.pc = "raised", !.raised = r.err]
      [] st.pc = "rewind" ->
            [st EXCEPT !.cap_pos = 0, !.frame_idx = 0, !.pc = "loop"]
      [] st.pc = "loop" ->
            LET r == CapRead(st.source, st.cap_pos)
            IN  [st EXCEPT !.ret = r.ret, !.frame = r.frame, !.cap_pos = r.pos,
                           !.pc = IF r.ret THEN "reconstruct" ELSE "release_cap"]
      [] st.pc = "reconstruct" ->
            LET r == remove_watermark_smart(TheValue(st.frame),
                                            TheValue(st.watermark_mask),
                                            st.prev_clean_frame)
            IN  IF r.ok
                THEN [st EXCEPT !.clean_frame = Some(r.val), !.pc = "write"]
                ELSE [st EXCEPT !.pc = "raised", !.raised = r.err]
      [] st.pc = "write" -> [st EXCEPT !.pc = "set_prev"]
      [] st.pc = "set_prev" ->
            [st EXCEPT !.prev_clean_frame = st.clean_frame, !.pc = "advance"]
      [] st.pc = "advance" ->
            [st EXCEPT !.frame_idx = @ + 1, !.pc = "loop"]
      [] st.pc = "release_cap" ->
            [st EXCEPT !.cap_open = FALSE, !.pc = "release_out"]
      [] st.pc = "release_out" ->
            [st EXCEPT !.out_open = FALSE, !.pc = "done"]

\* The file under a path after a step of an invocation that writes there:
\* cv2.VideoWriter creates the file, out.write appends a frame to it.
FileAfter(st, file) ==
    CASE st.pc = "open" -> <<>>
      [] st.pc = "write" -> Append(file, TheValue(st.clean_frame))
      [] OTHER -> file

InitJobs ==
    /\ DriverIdle
    /\ UnitIdle
    /\ jobs = [j \in JobIds |-> [status |-> "processing", progress |-> 0]]
    /\ disk = [p \in Paths |-> <<>>]
    /\ inv \in [JobIds -> {[pc |-> "queued", source |-> src] : src \in JobSources}]
    /\ reply = None

\* run_processing up to its call of process_complete, which calls
\* process_video_watermark(input_path, watermark_output).
JobStart(j) ==
    /\ inv[j].pc = "queued"
    /\ jobs' = [jobs EXCEPT ![j].progress = 10]
    /\ inv' = [inv EXCEPT ![j] = Locals(inv[j].source)]
    /\ UNCHANGED <<dvars, uvars, disk, reply>>

\* One step of the invocation of a job.
JobStep(j) ==
    /\ inv[j].pc \notin {"queued", "finished"}
    /\ ~Returned(inv[j])
    /\ inv' = [inv EXCEPT ![j] = process_video_watermark(inv[j])]
    /\ disk' = [disk EXCEPT ![WatermarkOutput(j)] = FileAfter(inv[j], @)]
    /\ UNCHANGED <<dvars, uvars, jobs, reply>>

\* run_processing after process_video_watermark has returned or raised
\* (process_complete catches what it raises): the later steps of
\* process_complete succeed or fail, and the job is marked accordingly.
JobFinish(j) ==
    /\ Returned(inv[j])
    /\ \E status \in {"complete", "error"} :
          jobs' = [jobs EXCEPT ![j] =
                      [status |-> status,
                       progress |-> IF status = "complete" THEN 100 ELSE @.progress]]
    /\ inv' = [inv EXCEPT ![j].pc = "finished"]
    /\ UNCHANGED <<dvars, uvars, disk, reply>>

NextJobs == \E j \in JobIds : JobStart(j) \/ JobStep(j) \/ JobFinish(j)

SpecJobs == InitJobs /\ [][NextJobs]_vars

RECURSIVE RunAlone(_, _)
\* The file an invocation leaves when it runs from a state to its end with
\* no other invocation.
RunAlone(st, file) ==
    IF Returned(st) THEN file
    ELSE RunAlone(process_video_watermark(st), FileAfter(st, file))

IsPrefix(a, b) == Len(a) <= Len(b) /\ a = SubSeq(b, 1, Len(a))

JobsOk ==
    \A j \in JobIds :
        LET alone == RunAlone(Locals(inv[j].source), <<>>)
            file == disk[WatermarkOutput(j)]
        IN  /\ IsPrefix(file, alone)
            /\ inv[j].pc \in {"done", "raised", "finished"} => file = alone
            /\ inv[j].pc \notin {"queued", "open", "finished"} =>
                  /\ Len(file) \in {inv[j].frame_idx, inv[j].frame_idx + 1}
                  /\ inv[j].prev_clean_frame \in
                        {None} \cup {Some(file[k]) : k \in 1..Len(file)}

\* A step of one job leaves the locals, the file and the entry of the other.
JobsStep ==
    \A j \in JobIds :
        inv'[j] # inv[j] =>
            \A k \in JobIds \ {j} :
                /\ inv'[k] = inv[k]
                /\ jobs'[k] = jobs[k]
                /\ disk'[WatermarkOutput(k)] = disk[WatermarkOutput(k)]

\* C20: two invocations on different videos that run in parallel share no
\* mask, previous-frame reference, frame counter or output file: under every
\* interleaving of their steps each writes a prefix of, and in the end
\* exactly, the frames it writes when it runs alone, and no step of one
\* changes anything of the other.
C20_JobsIndependent == []JobsOk /\ [][JobsStep]_vars

C20_Witness ==
    /\ \A j \in JobIds :
          inv[j].pc = "set_prev" /\ Len(disk[WatermarkOutput(j)]) = 1
    /\ inv[1].source # inv[2].source

\* ------------------------------------------------- pixels of the results

\* A call of the reconstructor with no previous frame that has returned.
SpatialCall == u_ret # None /\ u_args[3] = None /\ TheValue(u_ret).ok

\* A call of the reconstructor with a previous frame, all of one size, that
\* has returned.
TemporalCall ==
    /\ u_ret # None
    /\ u_args[3] # None
    /\ TheValue(u_ret).ok
    /\ SameSize(u_args[1], u_args[2])
    /\ SameSize(u_args[1], TheValue(u_args[3]))

\* C11: in the spatial-only reconstruction every pixel whose mask cell is 0
\* has in the output frame the value it has in the input frame.
C11_OutsideMaskKept ==
    SpatialCall =>
        \A fill \in Fills :
            LET in == pixels(u_args[1], fill)
                out == pixels(TheValue(u_ret).val, fill)
            IN  /\ Len(out) = Len(in)
                /\ \A j \in 1..Len(in) : u_args[2].px[j] = 0 => out[j] = in[j]

C11_Witness ==
    /\ SpatialCall
    /\ \E j \in 1..Len(u_args[2].px) : u_args[2].px[j] = 0
    /\ \E j \in 1..Len(u_args[2].px) :
          /\ u_args[2].px[j] # 0
          /\ pixels(TheValue(u_ret).val, "least")[j] # pixels(u_args[1], "least")[j]

\* C12 as claimed: in the spatial-only reconstruction of a frame whose masked
\* pixels all carry one level, a level that no pixel outside the mask has,
\* no masked pixel of the output has that level.
C12_MaskedSynthesized ==
    SpatialCall =>
        \A fill \in Fills :
            LET in == pixels(u_args[1], fill)
                out == pixels(TheValue(u_ret).val, fill)
                masked == {j \in 1..Len(in) : u_args[2].px[j] # 0}
            IN  \A sentinel \in {in[j] : j \in masked} :
                    (\A j \in 1..Len(in) : (j \in masked) = (in[j] = sentinel)) =>
                        \A j \in masked : out[j] # sentinel

\* C13: the blend gives, cell by cell, cur * (1 - m/255) + prev * (m/255)
\* truncated to an integer as the double arithmetic computes it (the
\* truncated exact value, or 1 less where the double sum ends just below an
\* integer): the previous frame's pixel where m = 255, the current frame's
\* pixel where m = 0, and always a level of 0..255.
C13_BlendValue ==
    TemporalCall =>
        \A fill \in Fills :
            LET cur == pixels(u_args[1], fill)
                prev == pixels(TheValue(u_args[3]), fill)
                m == u_args[2].px
                blended == pixels(TheValue(u_ret).val.src, fill)
            IN  \A j \in 1..Len(cur) :
                    LET exact == (cur[j] * (255 - m[j]) + prev[j] * m[j]) \div 255
                    IN  /\ blended[j] \in 0..255
                        /\ blended[j] \in {exact - 1, exact}
                        /\ m[j] \in {0, 128, 255} => blended[j] = exact
                        /\ m[j] = 255 => blended[j] = prev[j]
                        /\ m[j] = 0 => blended[j] = cur[j]

C13_Witness ==
    /\ TemporalCall
    /\ LET cur == pixels(u_args[1], "least")
           prev == pixels(TheValue(u_args[3]), "least")
           m == u_args[2].px
           blended == pixels(TheValue(u_ret).val.src, "least")
       IN  /\ \E j \in 1..Len(cur) : m[j] = 0 /\ blended[j] = cur[j]
           /\ \E j \in 1..Len(cur) :
                 m[j] = 255 /\ blended[j] = prev[j] /\ prev[j] # cur[j]

\* C14: the inpainting after the blend changes only cells of the edge band
\* (the Canny edges of the mask, dilated twice): every cell outside the band
\* keeps its blended value, and with mask cell 0 it is the pixel of the
\* current frame.
C14_OnlyBandSmoothed ==
    TemporalCall =>
        \A fill \in Fills :
            LET cur == pixels(u_args[1], fill)
                m == u_args[2].px
                band == mask_pixels(edge_mask(u_args[2]))
                blended ==
                    pixels(blend(u_args[1], u_args[2], TheValue(u_args[3])).val, fill)
                out == pixels(TheValue(u_ret).val, fill)
            IN  \A j \in 1..Len(cur) :
                    band[j] = 0 =>
                        /\ out[j] = blended[j]
                        /\ m[j] = 0 => out[j] = cur[j]

C14_Witness ==
    /\ TemporalCall
    /\ LET m == u_args[2].px
           band == mask_pixels(edge_mask(u_args[2]))
           blended ==
               pixels(blend(u_args[1], u_args[2], TheValue(u_args[3])).val, "least")
           out == pixels(TheValue(u_ret).val, "least")
       IN  /\ \E j \in 1..Len(m) : band[j] = 0 /\ m[j] = 0
           /\ \E j \in 1..Len(m) : band[j] = 0 /\ m[j] # 0
           /\ \E j \in 1..Len(m) : band[j] # 0 /\ out[j] # blended[j]

\* ------------------------------------------------- a fixed bright rectangle

\* The frame sizes of the files that carry the rectangle.
SentinelSizes == {<<13, 25>>, <<25, 25>>}

\* The rectangle: the cells of the fixed prior region, at a bright level.
SentinelBlob(w, h, lum) ==
    [x |-> w - margin_x(w) - wm_w(w), y |-> h - margin_y(h) - wm_h(h),
     bw |-> margin_x(w) + wm_w(w), bh |-> margin_y(h) + wm_h(h), lum |-> lum]

\* Input files of 0..MaxFrames equal frames: a plain background with the
\* rectangle on it.
SentinelSources ==
    {[k \in 1..n |-> FrameOf(sz[1], sz[2], bg, {SentinelBlob(sz[1], sz[2], lum)})] :
        n \in 0..MaxFrames, sz \in SentinelSizes, bg \in {10, 100},
        lum \in {220, 255}}

InitSentinel ==
    /\ pc = "open"
    /\ source \in SentinelSources
    /\ cap_open = FALSE
    /\ cap_pos = 0
    /\ out_open = FALSE
    /\ sink = <<>>
    /\ frame_count = 0
    /\ prev_clean_frame = None
    /\ ret = FALSE
    /\ first_frame = None
    /\ watermark_mask = None
    /\ frame = None
    /\ clean_frame = None
    /\ frame_idx = 0
    /\ reports = <<>>
    /\ raised = ""
    /\ detect_log = <<>>
    /\ smart_log = <<>>
    /\ UnitIdle
    /\ ServerIdle

SpecSentinel == InitSentinel /\ [][Next]_vars

\* The cells of a blob.
BlobCells(w, h, b) ==
    {j \in 1..(w * h) : /\ b.x <= XOf(w, j) /\ XOf(w, j) < b.x + b.bw
                        /\ b.y <= YOf(w, j) /\ YOf(w, j) < b.y + b.bh}

\* C15: a file of N equal frames, a plain background with one bright
\* rectangle inside the fixed prior region, gives N output frames of the
\* input size, and in none of them (frame 0, inpainted, and the later ones,
\* blended with their predecessor) a pixel of the rectangle still has the
\* rectangle's level.
C15_SentinelGone ==
    (pc = "done" /\ Len(source) >= 1) =>
        /\ Len(sink) = Len(source)
        /\ \A k \in 1..Len(sink) :
              /\ sink[k].w = source[k].w /\ sink[k].h = source[k].h
              /\ \A fill \in Fills :
                    LET out == pixels(sink[k], fill)
                    IN  /\ Len(out) = source[k].w * source[k].h
                        /\ \A b \in source[k].blobs :
                              \A j \in BlobCells(source[k].w, source[k].h, b) :
                                  out[j] # b.lum

C15_Witness ==
    /\ pc = "done"
    /\ Len(sink) >= 2
    /\ \A k \in 1..Len(source) :
          \E b \in source[k].blobs :
              /\ b.lum = 255
              /\ BlobCells(source[k].w, source[k].h, b) # {}
              /\ BlobCells(source[k].w, source[k].h, b)
                    \subseteq PriorCells(source[k].w, source[k].h)

\* ------------------------------------------------- the processing pipeline

\* The input files uploaded to the server: one that cv2 cannot read a frame
\* of, and one of a single frame.
ServerSources == {<<>>, <<FrameOf(2, 2, 10, {})>>}

\* input_path = UPLOAD_DIR / f"{job_id}_{file.filename}"
InputPath(job) == <<"uploads", job, "input.mp4">>

\* output_path = OUTPUT_DIR / f"{job_id}_enhanced.mp4"
OutputPath(job) == <<"outputs", job, "enhanced.mp4">>

\* video_output = os.path.join(tmpdir, f"step{step_num}_enhanced.mp4")
VideoOutput(job, step_num) ==
    <<"tmp", job, IF step_num = 1 THEN "step1_enhanced.mp4"
                                  ELSE "step2_enhanced.mp4">>

\* audio_output = os.path.join(tmpdir, f"step{step_num}_audio.mp4")
AudioOutput(job, step_num) ==
    <<"tmp", job, CASE step_num = 1 -> "step1_audio.mp4"
                    [] step_num = 2 -> "step2_audio.mp4"
                    [] OTHER -> "step3_audio.mp4">>

\* The files of the temporary directory of a call of process_complete.
TmpPaths(job) ==
    {WatermarkOutput(job)} \cup {VideoOutput(job, n) : n \in 1..2}
        \cup {AudioOutput(job, n) : n \in 1..3}

ServerPaths ==
    UNION {{InputPath(j), OutputPath(j)} \cup TmpPaths(j) : j \in JobIds}

RECURSIVE RunToReturn(_, _)
\* process_video_watermark run from its locals to its return or its
\* exception: the locals it ends with and the file it leaves.
RunToReturn(st, file) ==
    IF Returned(st) THEN [st |-> st, file |-> file]
    ELSE RunToReturn(process_video_watermark(st), FileAfter(st, file))

\* The locals of run_processing and of process_complete at the start of the
\* background task; calls lists the calls of the steps and of the final
\* encode, warnings the steps whose failure was printed.
TaskLocals(job, remove_watermark, enhance_video_quality, enhance_audio_quality) ==
    [pc |-> "queued",
     remove_watermark |-> remove_watermark,
     enhance_video_quality |-> enhance_video_quality,
     enhance_audio_quality |-> enhance_audio_quality,
     input_path |-> InputPath(job),
     output_path |-> OutputPath(job),
     current_file |-> InputPath(job),
     step_num |-> 0,
     steps |-> <<>>,
     warnings |-> <<>>,
     calls |-> <<>>,
     raised |-> ""]

\* Variant of AfterStep: the output of a step that raised is still handed on.
AfterStepHandsOnFailure(loc, name, output, ok, next) ==
    [loc EXCEPT !.pc = next,
                !.step_num = @ + 1,
                !.current_file = output,
                !.steps = IF ok THEN Append(@, name) ELSE @,
                !.warnings = IF ok THEN @ ELSE Append(@, name),
                !.calls = Append(@, [fn |-> name, input |-> loc.current_file,
                                     output |-> output, ok |-> ok])]

\* The try block of a step of process_complete: step_num += 1; the step is
\* called on current_file; when it returns, its output becomes current_file
\* and its name is appended to stats['steps']; when it raises, a warning is
\* printed and nothing else changes.
AfterStep(loc, name, output, ok, next) ==
    [loc EXCEPT !.pc = next,
                !.step_num = @ + 1,
                !.current_file = IF ok THEN output ELSE @,
                !.steps = IF ok THEN Append(@, name) ELSE @,
                !.warnings = IF ok THEN @ ELSE Append(@, name),
                !.calls = Append(@, [fn |-> name, input |-> loc.current_file,
                                     output |-> output, ok |-> ok])]

InitServer ==
    /\ DriverIdle
    /\ UnitIdle
    /\ jobs = <<>>
    /\ disk = [p \in ServerPaths |-> None]
    /\ inv = <<>>
    /\ reply = None

\* start_enhance: a job id not given before, the upload stored under
\* input_path, the entry of the job, and the background task queued.
start_enhance(job) ==
    /\ job \notin DOMAIN jobs
    /\ \E content \in ServerSources, remove_watermark \in BOOLEAN,
          enhance_video \in BOOLEAN, enhance_audio \in BOOLEAN :
          /\ disk' = [disk EXCEPT ![InputPath(job)] = Some(content)]
          /\ jobs' = (job :> [status |-> "processing", progress |-> 0,
                              step |-> "Starting...",
                              input |-> InputPath(job),
                              output |-> OutputPath(job)]) @@ jobs
          /\ inv' = (job :> TaskLocals(job, remove_watermark, enhance_video,
                                       enhance_audio)) @@ inv
    /\ reply' = Some([job_id |-> job])
    /\ UNCHANGED <<dvars, uvars>>

\* run_processing up to its call of process_complete.
RunProcessing(job) ==
    /\ job \in DOMAIN inv
    /\ inv[job].pc = "queued"
    /\ jobs' = [jobs EXCEPT ![job].step = "Processing video...",
                            ![job].progress = 10]
    /\ inv' = [inv EXCEPT ![job].pc = "watermark"]
    /\ reply' = None
    /\ UNCHANGED <<dvars, uvars, disk>>

\* Step 1 of process_complete: process_video_watermark(current_file,
\* watermark_output) in a try block, when remove_watermark is set.
StepWatermark(job) ==
    /\ job \in DOMAIN inv
    /\ inv[job].pc = "watermark"
    /\ IF inv[job].remove_watermark
       THEN LET loc == inv[job]
                output == WatermarkOutput(job)
                run == RunToReturn(Locals(TheValue(disk[loc.current_file])), <<>>)
            IN  /\ disk' = [disk EXCEPT ![output] = Some(run.file)]
                /\ inv' = [inv EXCEPT ![job] =
                              AfterStep(loc, "watermark_removal", output,
                                        run.st.pc = "done", "video")]
       ELSE /\ inv' = [inv EXCEPT ![job].pc = "video"]
            /\ disk' = disk
    /\ reply' = None
    /\ UNCHANGED <<dvars, uvars, jobs>>

\* Step 2 of process_complete: enhance_video(current_file, video_output) in a
\* try block, when enhance_video_quality is set.  The call runs ffmpeg and
\* returns or raises.
StepVideo(job) ==
    /\ job \in DOMAIN inv
    /\ inv[job].pc = "video"
    /\ IF inv[job].enhance_video_quality
       THEN LET loc == inv[job]
                output == VideoOutput(job, loc.step_num + 1)
            IN  \E ok \in BOOLEAN :
                    /\ disk' = [disk EXCEPT ![output] =
                                   IF ok THEN Some([op |-> "enhance_video",
                                                    of |-> disk[loc.current_file]])
                                   ELSE @]
                    /\ inv' = [inv EXCEPT ![job] =
                                  AfterStep(loc, "video_enhancement", output,
                                            ok, "audio")]
       ELSE /\ inv' = [inv EXCEPT ![job].pc = "audio"]
            /\ disk' = disk
    /\ reply' = None
    /\ UNCHANGED <<dvars, uvars, jobs>>

\* Step 3 of process_complete: enhance_video_audio(current_file, audio_output)
\* in a try block, when enhance_audio_quality is set.
StepAudio(job) ==
    /\ job \in DOMAIN inv
    /\ inv[job].pc = "audio"
    /\ IF inv[job].enhance_audio_quality
       THEN LET loc == inv[job]
                output == AudioOutput(job, loc.step_num + 1)
            IN  \E ok \in BOOLEAN :
                    /\ disk' = [disk EXCEPT ![output] =
                                   IF ok THEN Some([op |-> "enhance_video_audio",
                                                    of |-> disk[loc.current_file]])
                                   ELSE @]
                    /\ inv' = [inv EXCEPT ![job] =
                                  AfterStep(loc, "audio_enhancement", output,
                                            ok, "encode")]
       ELSE /\ inv' = [inv EXCEPT ![job].pc = "encode"]
            /\ disk' = disk
    /\ reply' = None
    /\ UNCHANGED <<dvars, uvars, jobs>>

\* The final encode of process_complete, subprocess.run(cmd, check=True):
\* ffmpeg writes output_path from current_file, or fails and the exception
\* leaves process_complete.  Either way the temporary directory is removed.
Encode(job) ==
    /\ job \in DOMAIN inv
    /\ inv[job].pc = "encode"
    /\ LET loc == inv[job]
       IN  \E ok \in BOOLEAN :
               /\ disk' = [p \in ServerPaths |->
                             IF p \in TmpPaths(job) THEN None
                             ELSE IF p = loc.output_path /\ ok
                                  THEN Some([op |-> "encode",
                                             of |-> disk[loc.current_file]])
                                  ELSE disk[p]]
               /\ inv' = [inv EXCEPT ![job] =
                             [loc EXCEPT
                                 !.pc = IF ok THEN "mark_complete" ELSE "mark_error",
                                 !.raised = IF ok THEN @ ELSE "CalledProcessError",
                                 !.calls = Append(@, [fn |-> "encode",
                                                      input |-> loc.current_file,
                                                      output |-> loc.output_path,
                                                      ok |-> ok])]]
    /\ reply' = None
    /\ UNCHANGED <<dvars, uvars, jobs>>

\* run_processing after process_complete has returned.
MarkComplete(job) ==
    /\ job \in DOMAIN inv
    /\ inv[job].pc = "mark_complete"
    /\ jobs' = [jobs EXCEPT ![job].status = "complete", ![job].progress = 100]
    /\ inv' = [inv EXCEPT ![job].pc = "cleanup"]
    /\ reply' = None
    /\ UNCHANGED <<dvars, uvars, disk>>

\* The except clause of run_processing.
MarkError(job) ==
    /\ job \in DOMAIN inv
    /\ inv[job].pc = "mark_error"
    /\ jobs' = [jobs EXCEPT ![job] =
                   [error |-> inv[job].raised] @@ [@ EXCEPT !.status = "error"]]
    /\ inv' = [inv EXCEPT ![job].pc = "cleanup"]
    /\ reply' = None
    /\ UNCHANGED <<dvars, uvars, disk>>

\* The finally clause of run_processing: os.remove(input_path).
Cleanup(job) ==
    /\ job \in DOMAIN inv
    /\ inv[job].pc = "cleanup"
    /\ disk' = [disk EXCEPT ![inv[job].input_path] = None]
    /\ inv' = [inv EXCEPT ![job].pc = "finished"]
    /\ reply' = None
    /\ UNCHANGED <<dvars, uvars, jobs>>

\* Variant of download_reply: the file is served once the job is no longer
\* being processed.
download_reply_when_ended(job_id) ==
    IF job_id \notin DOMAIN jobs
    THEN [job_id |-> job_id, code |-> 404, detail |-> "Job not found"]
    ELSE IF jobs[job_id].status = "processing"
    THEN [job_id |-> job_id, code |-> 400, detail |-> "Job not complete"]
    ELSE IF disk[jobs[job_id].output] = None
    THEN [job_id |-> job_id, code |-> 500, detail |-> "File does not exist"]
    ELSE [job_id |-> job_id, code |-> 200, file |-> TheValue(disk[jobs[job_id].output])]

\* The answer of the download endpoint; FileResponse fails on a path with no
\* file under it.
download_reply(job_id) ==
    IF job_id \notin DOMAIN jobs
    THEN [job_id |-> job_id, code |-> 404, detail |-> "Job not found"]
    ELSE IF jobs[job_id].status # "complete"
    THEN [job_id |-> job_id, code |-> 400, detail |-> "Job not complete"]
    ELSE IF disk[jobs[job_id].output] = None
    THEN [job_id |-> job_id, code |-> 500, detail |-> "File does not exist"]
    ELSE [job_id |-> job_id, code |-> 200, file |-> TheValue(disk[jobs[job_id].output])]

\* GET /download/{job_id}.  reply holds the answer that the last step sent,
\* None when that step answered no request.
download(job_id) ==
    /\ reply' = Some(download_reply(job_id))
    /\ UNCHANGED <<dvars, uvars, jobs, disk, inv>>

NextServer ==
    \E j \in JobIds :
        \/ start_enhance(j)
        \/ RunProcessing(j)
        \/ StepWatermark(j)
        \/ StepVideo(j)
        \/ StepAudio(j)
        \/ Encode(j)
        \/ MarkComplete(j)
        \/ MarkError(j)
        \/ Cleanup(j)
        \/ download(j)

SpecServer == InitServer /\ [][NextServer]_vars

\* The steps that process_complete has come past.
StepsPassed(loc) ==
    CASE loc.pc \in {"queued", "watermark"} -> 0
      [] loc.pc = "video" -> 1
      [] loc.pc = "audio" -> 2
      [] OTHER -> 3

\* The calls made so far by a run of process_complete with the given flags:
\* the enabled steps it has come past, in the fixed order, and the encode.
CallsDue(loc) ==
    (IF StepsPassed(loc) >= 1 /\ loc.remove_watermark
     THEN <<"watermark_removal">> ELSE <<>>)
    \o (IF StepsPassed(loc) >= 2 /\ loc.enhance_video_quality
        THEN <<"video_enhancement">> ELSE <<>>)
    \o (IF StepsPassed(loc) >= 3 /\ loc.enhance_audio_quality
        THEN <<"audio_enhancement">> ELSE <<>>)
    \o (IF loc.pc \in {"mark_complete", "mark_error", "cleanup", "finished"}
        THEN <<"encode">> ELSE <<>>)

\* The output of the last of the first n calls that succeeded, the original
\* input when none did.
LastOutput(loc, n) ==
    LET good == {i \in 1..n : loc.calls[i].ok}
    IN  IF good = {} THEN loc.input_path ELSE loc.calls[Max(good)].output

IsSuccessfulStep(call) == call.ok /\ call.fn # "encode"

PipelineOk ==
    \A j \in DOMAIN inv :
        LET loc == inv[j]
            succeeded == SelectSeq(loc.calls, IsSuccessfulStep)
        IN  /\ [k \in 1..Len(loc.calls) |-> loc.calls[k].fn] = CallsDue(loc)
            /\ \A k \in 1..Len(loc.calls) :
                   loc.calls[k].input = LastOutput(loc, k - 1)
            /\ loc.pc \in {"video", "audio", "encode"} =>
                   loc.current_file = LastOutput(loc, Len(loc.calls))
            /\ loc.steps = [k \in 1..Len(succeeded) |-> succeeded[k].fn]
            /\ Len(loc.steps) + Len(loc.warnings) = loc.step_num
            /\ \A k \in 1..Len(loc.calls) :
                   (~loc.calls[k].ok /\ loc.calls[k].fn # "encode") =>
                       \E i \in 1..Len(loc.warnings) :
                           loc.warnings[i] = loc.calls[k].fn

\* A step of a job that ends a step of the pipeline by an exception goes on
\* to the next step; only the encode's failure ends the run.
PipelineStep ==
    \A j \in DOMAIN inv :
        (j \in DOMAIN inv' /\ inv'[j].pc = "mark_error") =>
            /\ inv[j].pc \in {"encode", "mark_error"}
            /\ inv'[j].raised = "CalledProcessError"

\* C21: in process_complete the enabled steps run in the order watermark
\* removal, video enhancement, audio enhancement; a step that raises is
\* skipped with a warning and the run goes on; each step and the final
\* encode reads the output of the last step that succeeded, the original
\* input when none did; stats['steps'] is the list of the steps that
\* succeeded, in the order they ran.
C21_PipelineOrder == []PipelineOk /\ [][PipelineStep]_vars

\* A run with the three steps enabled in which the first and the third fail
\* and the second succeeds, after its encode.
C21_Witness ==
    \E j \in DOMAIN inv :
        /\ inv[j].pc = "mark_complete"
        /\ inv[j].steps = <<"video_enhancement">>
        /\ inv[j].warnings = <<"watermark_removal", "audio_enhancement">>
        /\ Len(inv[j].calls) = 4
        /\ inv[j].calls[4].input = VideoOutput(j, 2)

\* ------------------------------------------------- status and download

\* The answer to a download request fits the entry of the job at the time
\* of the request.
ReplyOk ==
    (reply # None /\ "code" \in DOMAIN TheValue(reply)) =>
        LET r == TheValue(reply)
            id == r.job_id
        IN  /\ r.code \in {200, 400, 404}
            /\ r.code = 404 <=> id \notin DOMAIN jobs
            /\ r.code = 400 <=>
                  (id \in DOMAIN jobs /\ jobs[id].status \in {"processing", "error"})
            /\ r.code = 200 <=>
                  (id \in DOMAIN jobs /\ jobs[id].status = "complete")
            /\ r.code = 200 =>
                  /\ disk[OutputPath(id)] # None
                  /\ r.file = TheValue(disk[OutputPath(id)])
                  /\ r.file.op = "encode"

StatusOk ==
    \A j \in DOMAIN jobs : jobs[j].status \in {"processing", "complete", "error"}

\* A step adds entries with status 'processing', removes none, and changes
\* a status only from 'processing'.
StatusStep ==
    /\ DOMAIN jobs \subseteq DOMAIN jobs'
    /\ \A j \in DOMAIN jobs' \ DOMAIN jobs : jobs'[j].status = "processing"
    /\ \A j \in DOMAIN jobs :
          jobs'[j].status # jobs[j].status => jobs[j].status = "processing"

\* C22: the download endpoint serves the output file of a job only while the
\* job's status is 'complete', answers 404 for a job id it does not know and
\* 400 for a job that is 'processing' or 'error'; a status starts as
\* 'processing', changes at most once, to 'complete' or 'error', and never
\* changes afterwards.
C22_DownloadAndStatus == [](ReplyOk /\ StatusOk) /\ [][StatusStep]_vars

\* The three answers: the file of a complete job is served while the other
\* job has failed, a failed job is refused, an unknown job is not found.
C22_Witness ==
    /\ reply # None
    /\ "code" \in DOMAIN TheValue(reply)
    /\ TheValue(reply).code = 200
    /\ \E k \in DOMAIN jobs : jobs[k].status = "error"
    /\ download_reply(CHOOSE k \in DOMAIN jobs : jobs[k].status = "error").code = 400

\* The steps requested for a job, in the order of the pipeline.
StepsRequested(loc) ==
    (IF loc.remove_watermark THEN <<"watermark_removal">> ELSE <<>>)
    \o (IF loc.enhance_video_quality THEN <<"video_enhancement">> ELSE <<>>)
    \o (IF loc.enhance_audio_quality THEN <<"audio_enhancement">> ELSE <<>>)

\* C23 as claimed: whenever a job's status is 'complete', every step that
\* was requested for it has succeeded; a job that requested watermark
\* removal is not 'complete' when process_video_watermark raised for it.
C23_CompleteMeansAllSucceeded ==
    \A j \in DOMAIN jobs :
        jobs[j].status = "complete" =>
            /\ inv[j].steps = StepsRequested(inv[j])
            /\ inv[j].warnings = <<>>

\* ------------------------------------------------- carrying forward

\* The cells of the mask of the run that are marked and lie outside the
\* dilated edge band.
CarriedCells ==
    LET m == TheValue(watermark_mask).px
        band == mask_pixels(edge_mask(TheValue(watermark_mask)))
    IN  {j \in 1..Len(m) : m[j] # 0 /\ band[j] = 0}

\* C24 as claimed: in a sequence run, for every frame i >= 1 and every pixel
\* whose mask cell is nonzero and that lies outside the dilated edge band,
\* output i has the value that output i-1 has at the same coordinates,
\* whether the cell was marked by a detected region or by the fixed prior
\* rectangle alone.
C24_MaskedCarriedForward ==
    (watermark_mask # None /\ Len(sink) >= 2) =>
        \A k \in 2..Len(sink) :
            \A fill \in Fills :
                LET out == pixels(sink[k], fill)
                    before == pixels(sink[k - 1], fill)
                IN  \A j \in CarriedCells : out[j] = before[j]

\* ------------------------------------------------- release on every return

\* C25 as claimed: on every way process_video_watermark can terminate, by
\* its return or by an exception at frame 0 or in mid-sequence, the frame
\* source and the frame sink that were opened are released when control is
\* back at the caller.
C25_ReleasedOnEveryReturn ==
    pc \in {"done", "raised"} => (~cap_open /\ ~out_open)

====
